---- MODULE Spec2Model ----
(***************************************************************************)
(* Graph search (searchclient/search_algorithms/graph_search.py) driven by *)
(* the depth-first frontier (searchclient/strategies/dfs.py).              *)
(*                                                                         *)
(* A state of the planning domain is a record [val, parent, path_cost].    *)
(* val is what the domain's equality and hash look at; parent is None for  *)
(* a root and otherwise the generating state with the action that led      *)
(* here; path_cost is the bookkeeping slot graph_search resets on the      *)
(* initial state. Python sets (the frontier's index, the explored set)     *)
(* hold states up to equality, so they are sets of vals; the frontier's    *)
(* list holds the objects. Wall-clock time and memory usage are left out.  *)
(***************************************************************************)
EXTENDS Integers, Sequences, FiniteSets, TLC

\* ---------------------------------------------------------------- bounds
NumStates == 3          \* distinct world configurations 0 .. NumStates-1
MaxEdges == 3           \* (state, action) pairs with a successor, per level
MaxOps == 4             \* frontier calls the driver makes on its own
MaxCount == 1200        \* largest count the reporter is tried on, but for one

States == 0 .. (NumStates - 1)
\* The value T gives a (state, action) pair that is not applicable.
NoState == NumStates
\* The action catalogue, in the order the domain lists it.
action_set == <<1, 2>>
Actions == {action_set[i] : i \in 1 .. Len(action_set)}

None == [none |-> TRUE]

VARIABLES
    T,              \* the level: T[s][a] is the successor of s under a, or NoState
    goals,          \* the vals the goal description accepts
    initial_state,  \* the state object the driver passes to graph_search
    frontier,       \* the FrontierDFS instance: [stack, set]
    explored,       \* graph_search's local explored set
    pc,             \* where the driver / graph_search stands
    leaf,           \* graph_search's local leaf
    leaf_actions,   \* graph_search's local leaf_actions
    idx,            \* position of the for loop in leaf_actions
    iterations,     \* graph_search's local iterations
    result,         \* the tuple graph_search returned
    run,            \* "first" or "second" call on this frontier instance
    prev,           \* what the first call returned
    junk,           \* frontier calls the driver may still make on its own
    hist,           \* observer: what happened to the frontier since the last prepare
    last,           \* observer: the last frontier call, its outcome and the state before it
    calls,          \* observer: frontier calls made by the current graph_search call
    report          \* the reporter tried on its own: a count and what comes back parsed

vars == <<T, goals, initial_state, frontier, explored, pc, leaf, leaf_actions,
          idx, iterations, result, run, prev, junk, hist, last, calls, report>>

\* ------------------------------------------------------------- sequences
RECURSIVE Reverse(_)
Reverse(s) == IF s = <<>> THEN <<>> ELSE Append(Reverse(Tail(s)), Head(s))

Front(s) == SubSeq(s, 1, Len(s) - 1)

\* ------------------------------------------------- the domain's capabilities
MkRoot(v) == [val |-> v, parent |-> None, path_cost |-> 0]

\* state.result(action): a new state object whose parent is the state it was made from.
state_result(state, action) ==
    [val |-> T[state.val][action],
     parent |-> [state |-> state, action |-> action],
     path_cost |-> state.path_cost + 1]

\* state.get_applicable_actions(action_set): the catalogue's applicable actions, in order.
get_applicable_actions(state) ==
    SelectSeq(action_set, LAMBDA a : T[state.val][a] # NoState)

is_goal(state) == state.val \in goals

\* state.extract_plan(): the actions on the parent links, root first.
RECURSIVE PlanBack(_)
PlanBack(state) ==
    IF state.parent = None THEN <<>>
    ELSE <<state.parent.action>> \o PlanBack(state.parent.state)

extract_plan(state) == Reverse(PlanBack(state))

\* ------------------------------------------------------------- FrontierDFS
FrontierNew == [stack |-> <<>>, set |-> {}]

prepare_keeps(f) == f

prepare_stack_only(f) == [f EXCEPT !.stack = <<>>]

prepare(f) == [stack |-> <<>>, set |-> {}]

add_stack_only(f, state) == [f EXCEPT !.stack = Append(f.stack, state)]

add(f, state) ==
    [stack |-> Append(f.stack, state), set |-> f.set \cup {state.val}]

pop_head(f) ==
    IF Len(f.stack) = 0
    THEN [frontier |-> f, ret |-> None, err |-> "IndexError"]
    ELSE LET state == f.stack[1]
             shrunk == [f EXCEPT !.stack = Tail(f.stack)]
         IN  IF state.val \notin f.set
             THEN [frontier |-> shrunk, ret |-> None, err |-> "KeyError"]
             ELSE [frontier |-> [shrunk EXCEPT !.set = @ \ {state.val}],
                   ret |-> state, err |-> "none"]

pop_sentinel(f) ==
    IF Len(f.stack) = 0
    THEN [frontier |-> f, ret |-> None, err |-> "none"]
    ELSE LET state == f.stack[Len(f.stack)]
             shrunk == [f EXCEPT !.stack = Front(f.stack)]
         IN  IF state.val \notin f.set
             THEN [frontier |-> shrunk, ret |-> None, err |-> "KeyError"]
             ELSE [frontier |-> [shrunk EXCEPT !.set = @ \ {state.val}],
                   ret |-> state, err |-> "none"]

\* pop: list.pop() raises IndexError on an empty list, before anything is
\* touched; set.remove raises KeyError after the list has already shrunk.
pop(f) ==
    IF Len(f.stack) = 0
    THEN [frontier |-> f, ret |-> None, err |-> "IndexError"]
    ELSE LET state == f.stack[Len(f.stack)]
             shrunk == [f EXCEPT !.stack = Front(f.stack)]
         IN  IF state.val \notin f.set
             THEN [frontier |-> shrunk, ret |-> None, err |-> "KeyError"]
             ELSE [frontier |-> [shrunk EXCEPT !.set = @ \ {state.val}],
                   ret |-> state, err |-> "none"]

is_empty(f) == Len(f.stack) = 0

size_of_set(f) == Cardinality(f.set)

size(f) == Len(f.stack)

contains(f, state) == state.val \in f.set

\* --------------------------------------------------- print_search_status
\* Text is a sequence of one-character strings; a parsed number is num/den.
DigitChars == <<"0", "1", "2", "3", "4", "5", "6", "7", "8", "9">>

DigitVal(c) == CHOOSE d \in 0 .. 9 : DigitChars[d + 1] = c

RECURSIVE Digits(_)
Digits(n) ==
    IF n < 10 THEN <<DigitChars[n + 1]>>
    ELSE Append(Digits(n \div 10), DigitChars[(n % 10) + 1])

\* The ',' option of the format: a comma before every group of three digits.
RECURSIVE Grouped(_)
Grouped(d) ==
    IF Len(d) <= 3 THEN d
    ELSE Grouped(SubSeq(d, 1, Len(d) - 3)) \o <<",">> \o SubSeq(d, Len(d) - 2, Len(d))

RECURSIVE PadLeft(_, _)
PadLeft(s, w) == IF Len(s) >= w THEN s ELSE PadLeft(<<" ">> \o s, w)

Replace(s, old, new) == [i \in 1 .. Len(s) |-> IF s[i] = old THEN new ELSE s[i]]

\* f"{n:8,d}".replace(',', '.')
format_count(n) == Replace(PadLeft(Grouped(Digits(n)), 8), ",", ".")

RECURSIVE DigitsValue(_)
DigitsValue(d) ==
    IF d = <<>> THEN 0 ELSE 10 * DigitsValue(Front(d)) + DigitVal(d[Len(d)])

RECURSIVE Pow10(_)
Pow10(k) == IF k = 0 THEN 1 ELSE 10 * Pow10(k - 1)

\* Python's float(text): surrounding blanks are dropped, one '.' is a decimal
\* point, a second one is a ValueError.
float(text) ==
    LET body == SelectSeq(text, LAMBDA c : c # " ")
        dots == {i \in 1 .. Len(body) : body[i] = "."}
    IN
    IF Cardinality(dots) > 1 \/ Len(body) = Cardinality(dots)
    THEN [err |-> "ValueError"]
    ELSE LET digits == SelectSeq(body, LAMBDA c : c # ".")
             after == IF dots = {} THEN 0
                      ELSE Len(body) - (CHOOSE i \in dots : TRUE)
         IN  [num |-> DigitsValue(digits), den |-> Pow10(after)]

\* A Python int, in the same representation.
int(n) == [num |-> n, den |-> 1]

\* print_search_status(expanded, frontier): the num_generated text it returns.
print_search_status(expanded, f) == format_count(Len(expanded) + size(f))

\* ---------------------------------------------------------------- observers
HistNew == [adds |-> 0, pops |-> 0, dup |-> FALSE, keyErr |-> FALSE, live |-> {}]

LastNone == [op |-> "none", err |-> "none", ret |-> None,
             pre |-> FrontierNew, preh |-> HistNew]

\* leftover: the frontier's size when the current graph_search call began;
\* given: the initial state object as the call received it.
CallsNone == [prepare |-> 0, add |-> 0, pop |-> 0, leftover |-> 0, given |-> None]

StackVals(f) == {f.stack[i].val : i \in 1 .. Len(f.stack)}

\* The entry of live that was added last.
Newest(live) == CHOOSE e \in live : \A o \in live : o.t <= e.t

\* live without the newest entry of value v.
Unlive(live, v) ==
    LET mine == {e \in live : e.val = v}
    IN  IF mine = {} THEN live ELSE live \ {Newest(mine)}

ObservePrepare ==
    /\ hist' = HistNew
    /\ last' = [op |-> "prepare", err |-> "none", ret |-> None,
                pre |-> frontier, preh |-> hist]

ObserveAdd(state) ==
    /\ hist' = [hist EXCEPT !.adds = @ + 1,
                            !.dup = @ \/ state.val \in (StackVals(frontier) \cup frontier.set),
                            !.live = @ \cup {[t |-> hist.adds + 1, val |-> state.val]}]
    /\ last' = [op |-> "add", err |-> "none", ret |-> None,
                pre |-> frontier, preh |-> hist]

ObservePop(r) ==
    /\ hist' = IF r.err = "none" /\ r.ret # None
               THEN [hist EXCEPT !.pops = @ + 1, !.live = Unlive(@, r.ret.val)]
               ELSE IF r.err = "KeyError" THEN [hist EXCEPT !.keyErr = TRUE]
               ELSE hist
    /\ last' = [op |-> "pop", err |-> r.err, ret |-> r.ret,
                pre |-> frontier, preh |-> hist]

\* ------------------------------------------------------------------- Init
\* The vals reachable from the vals in S on level t.
RECURSIVE ReachFrom(_, _)
ReachFrom(t, S) ==
    LET more == S \cup ({t[s][a] : s \in S, a \in Actions} \ {NoState})
    IN  IF more = S THEN S ELSE ReachFrom(t, more)

\* The (state, action) pairs of level t that have a successor.
Edges(t) == {p \in States \X Actions : t[p[1]][p[2]] # NoState}

\* The levels of the bounded family: at most MaxEdges applicable pairs. A pair
\* at a state that cannot be reached from state 0 is never looked at, so the
\* family holds one level for all that differ only there.
Levels ==
    {t \in [States -> [Actions -> States \cup {NoState}]] :
        /\ Cardinality(Edges(t)) <= MaxEdges
        /\ \A p \in Edges(t) : p[1] \in ReachFrom(t, {0})}

\* One level for the driver that exercises the frontier on its own:
\* 0 -1-> 1, 0 -2-> 2, 1 -1-> 0.
FixedLevel ==
    [s \in States |-> [a \in Actions |->
        IF s = 0 /\ a = 1 THEN 1
        ELSE IF s = 0 /\ a = 2 THEN 2
        ELSE IF s = 1 /\ a = 1 THEN 0
        ELSE NoState]]

\* The initial state object is a root, or was left as a child by earlier use.
InitialStates ==
    {MkRoot(0),
     [val |-> 0,
      parent |-> [state |-> MkRoot(NumStates - 1), action |-> action_set[1]],
      path_cost |-> 1]}

InitCommon ==
    /\ initial_state \in InitialStates
    /\ frontier = FrontierNew
    /\ explored = {}
    /\ pc = "idle"
    /\ leaf = None
    /\ leaf_actions = <<>>
    /\ idx = 0
    /\ iterations = 0
    /\ result = None
    /\ run = "first"
    /\ prev = None
    /\ hist = HistNew
    /\ last = LastNone
    /\ calls = CallsNone

\* The driver searches straight away, on any level of the family.
InitSearch ==
    /\ T \in Levels
    /\ goals \in SUBSET States
    /\ junk = 0

\* The driver calls the frontier on its own before it searches the fixed level.
InitDriver ==
    /\ T = FixedLevel
    /\ goals \in {{}, {2}}
    /\ junk = MaxOps

Init == InitCommon /\ report = None /\ (InitSearch \/ InitDriver)

\* The counts the reporter is tried on: every one up to MaxCount, and one
\* with two thousands separators.
Counts == (0 .. MaxCount) \cup {MaxCount * MaxCount}

\* Nothing is searched; the reporter's count is the input.
InitReport ==
    /\ InitCommon
    /\ T = FixedLevel
    /\ goals = {}
    /\ junk = 0
    /\ report \in {[count |-> n, parsed |-> None] : n \in Counts}

\* ------------------------------------------------- the driver's own calls
DriverPrepare ==
    /\ pc = "idle" /\ junk > 0
    /\ frontier' = prepare(frontier)
    /\ ObservePrepare
    /\ junk' = junk - 1
    /\ UNCHANGED <<report, T, goals, initial_state, explored, pc, leaf, leaf_actions,
                   idx, iterations, result, run, prev, calls>>

DriverAdd(v) ==
    /\ pc = "idle" /\ junk > 0
    /\ frontier' = add(frontier, MkRoot(v))
    /\ ObserveAdd(MkRoot(v))
    /\ junk' = junk - 1
    /\ UNCHANGED <<report, T, goals, initial_state, explored, pc, leaf, leaf_actions,
                   idx, iterations, result, run, prev, calls>>

\* A pop that raises leaves the driver where it was.
DriverPop ==
    /\ pc = "idle" /\ junk > 0
    /\ frontier' = pop(frontier).frontier
    /\ ObservePop(pop(frontier))
    /\ junk' = junk - 1
    /\ UNCHANGED <<report, T, goals, initial_state, explored, pc, leaf, leaf_actions,
                   idx, iterations, result, run, prev, calls>>

\* ------------------------------------------------------------ graph_search
\* Lines 42-44: iterations = 0; frontier.prepare(goal_description).
Enter ==
    /\ pc = "idle"
    /\ iterations' = 0
    /\ frontier' = prepare(frontier)
    /\ ObservePrepare
    /\ calls' = [prepare |-> calls.prepare + 1, add |-> 0, pop |-> 0,
                 leftover |-> size(frontier), given |-> initial_state]
    /\ pc' = "prepared"
    /\ UNCHANGED <<report, T, goals, initial_state, explored, leaf, leaf_actions, idx,
                   result, run, prev, junk>>

MakeRoot_keeps(state) == state

MakeRoot_parent_only(state) == [state EXCEPT !.parent = None]

\* Lines 47-48: the initial state is made a root.
MakeRoot(state) == [state EXCEPT !.parent = None, !.path_cost = 0]

\* Lines 47-53.
Root ==
    /\ pc = "prepared"
    /\ initial_state' = MakeRoot(initial_state)
    /\ explored' = {}
    /\ frontier' = add(frontier, initial_state')
    /\ ObserveAdd(initial_state')
    /\ calls' = [calls EXCEPT !.add = @ + 1]
    /\ pc' = "loop"
    /\ UNCHANGED <<report, T, goals, leaf, leaf_actions, idx, iterations, result, run,
                   prev, junk>>

ExhaustedResult_reporter ==
    [success |-> FALSE, plan |-> <<>>,
     generated |-> float(print_search_status(<<>>, frontier))]

\* Lines 81-84.
ExhaustedResult == [success |-> FALSE, plan |-> <<>>, generated |-> int(iterations)]

Exhausted_unguarded ==
    /\ pc = "loop"
    /\ result' = ExhaustedResult
    /\ pc' = "done"
    /\ UNCHANGED <<report, T, goals, initial_state, frontier, explored, leaf, leaf_actions,
                   idx, iterations, run, prev, junk, hist, last, calls>>

Exhausted ==
    /\ pc = "loop"
    /\ is_empty(frontier)
    /\ result' = ExhaustedResult
    /\ pc' = "done"
    /\ UNCHANGED <<report, T, goals, initial_state, frontier, explored, leaf, leaf_actions,
                   idx, iterations, run, prev, junk, hist, last, calls>>

\* Lines 87-88. An exception from pop leaves graph_search.
Pop ==
    /\ pc = "loop"
    /\ ~is_empty(frontier)
    /\ LET r == pop(frontier)
       IN  /\ frontier' = r.frontier
           /\ ObservePop(r)
           /\ calls' = [calls EXCEPT !.pop = @ + 1]
           /\ IF r.err = "none"
              THEN /\ leaf' = r.ret
                   /\ iterations' = iterations + 1
                   /\ pc' = "popped"
              ELSE /\ pc' = "raised"
                   /\ UNCHANGED <<leaf, iterations>>
    /\ UNCHANGED <<report, T, goals, initial_state, explored, leaf_actions, idx, result,
                   run, prev, junk>>

\* Lines 98-101: the count comes back from the reporter as text and is parsed.
GoalResult ==
    [success |-> is_goal(leaf),
     plan |-> extract_plan(leaf),
     generated |-> float(print_search_status(extract_plan(leaf), frontier))]

\* Lines 91-102.
GoalFound ==
    /\ pc = "popped"
    /\ is_goal(leaf)
    /\ IF GoalResult.generated = [err |-> "ValueError"]
       THEN pc' = "raised" /\ UNCHANGED result
       ELSE pc' = "done" /\ result' = GoalResult
    /\ UNCHANGED <<report, T, goals, initial_state, frontier, explored, leaf, leaf_actions,
                   idx, iterations, run, prev, junk, hist, last, calls>>

\* Lines 105-106.
Explore ==
    /\ pc = "popped"
    /\ ~is_goal(leaf)
    /\ explored' = explored \cup {leaf.val}
    /\ leaf_actions' = get_applicable_actions(leaf)
    /\ idx' = 1
    /\ pc' = IF leaf_actions' = <<>> THEN "loop" ELSE "for"
    /\ UNCHANGED <<report, T, goals, initial_state, frontier, leaf, iterations, result,
                   run, prev, junk, hist, last, calls>>

\* Line 111.
child_state == state_result(leaf, leaf_actions[idx])

Unseen_frontier_only(child) == ~contains(frontier, child)

Unseen_explored_only(child) == child.val \notin explored

\* Line 114.
Unseen(child) == child.val \notin explored /\ ~contains(frontier, child)

NextAction_first_only ==
    /\ idx' = idx + 1
    /\ pc' = "loop"

\* The for loop moves on; after the last action control is back at line 79.
NextAction ==
    /\ idx' = idx + 1
    /\ pc' = IF idx = Len(leaf_actions) THEN "loop" ELSE "for"

\* Lines 109-115, one action of the for loop whose child is added.
AddChild ==
    /\ pc = "for"
    /\ Unseen(child_state)
    /\ frontier' = add(frontier, child_state)
    /\ ObserveAdd(child_state)
    /\ calls' = [calls EXCEPT !.add = @ + 1]
    /\ NextAction
    /\ UNCHANGED <<report, T, goals, initial_state, explored, leaf, leaf_actions,
                   iterations, result, run, prev, junk>>

\* Lines 109-114, one action of the for loop whose child is dropped.
DropChild ==
    /\ pc = "for"
    /\ ~Unseen(child_state)
    /\ NextAction
    /\ UNCHANGED <<report, T, goals, initial_state, frontier, explored, leaf, leaf_actions,
                   iterations, result, run, prev, junk, hist, last, calls>>

\* The driver keeps the frontier instance and the initial state object and
\* calls graph_search once more; the locals of the finished call are gone.
Again ==
    /\ pc = "done"
    /\ run = "first"
    /\ run' = "second"
    /\ prev' = result
    /\ result' = None
    /\ explored' = {}
    /\ leaf' = None
    /\ leaf_actions' = <<>>
    /\ idx' = 0
    /\ iterations' = 0
    /\ calls' = CallsNone
    /\ pc' = "idle"
    /\ UNCHANGED <<report, T, goals, initial_state, frontier, junk, hist, last>>

\* Lines 133 and 101 on a count of report.count: the reporter formats the
\* count, graph_search parses the text it gets back.
Report ==
    /\ report # None
    /\ report.parsed = None
    /\ report' = [report EXCEPT !.parsed = float(format_count(report.count))]
    /\ UNCHANGED <<T, goals, initial_state, frontier, explored, pc, leaf,
                   leaf_actions, idx, iterations, result, run, prev, junk, hist,
                   last, calls>>

Next ==
    \/ DriverPrepare
    \/ \E v \in States : DriverAdd(v)
    \/ DriverPop
    \/ Enter
    \/ Root
    \/ Exhausted
    \/ Pop
    \/ GoalFound
    \/ Explore
    \/ AddChild
    \/ DropChild
    \/ Again

Spec == Init /\ [][Next]_vars

\* graph_search is sequential code: once called, it keeps executing its next
\* statement. The driver is under no obligation to call anything.
SearchStep ==
    Root \/ Exhausted \/ Pop \/ GoalFound \/ Explore \/ AddChild \/ DropChild

FairSpec == Spec /\ WF_vars(SearchStep)

NextReport == Report

SpecReport == InitReport /\ [][NextReport]_vars

TypeOK ==
    /\ pc \in {"idle", "prepared", "loop", "popped", "for", "done", "raised"}
    /\ explored \subseteq States
    /\ frontier.set \subseteq States
    /\ iterations \in 0 .. NumStates

\* ------------------------------------------------------------------ claims
Returned == pc = "done"

\* Where the plan leads from val v on the level, NoState once a step is not applicable.
RECURSIVE Follow(_, _)
Follow(v, plan) ==
    IF plan = <<>> \/ v = NoState THEN v
    ELSE Follow(T[v][Head(plan)], Tail(plan))

\* Every parent link of state is a transition of the level, and the chain
\* ends at the initial state object.
RECURSIVE ChainFromInitial(_)
ChainFromInitial(state) ==
    IF state.parent = None THEN state = initial_state
    ELSE /\ T[state.parent.state.val][state.parent.action] = state.val
         /\ ChainFromInitial(state.parent.state)

\* C1: when graph_search returns success, the popped leaf satisfies the goal,
\* the returned plan is the leaf's chain of parent links, every link is an
\* applicable action whose result is the next state, and the chain starts at
\* the initial state.
C1_PlanIsValid ==
    (Returned /\ result.success) =>
        /\ is_goal(leaf)
        /\ result.plan = extract_plan(leaf)
        /\ ChainFromInitial(leaf)
        /\ Follow(initial_state.val, result.plan) = leaf.val

C1_Witness ==
    Returned /\ result.success /\ Len(result.plan) >= 2 /\ Cardinality(explored) >= 2

\* C2: at every point of graph_search no state is both in the frontier (its
\* list or its index) and in the explored set.
C2_FrontierExploredDisjoint ==
    explored \cap (frontier.set \cup StackVals(frontier)) = {}

C2_Witness ==
    /\ pc = "for" /\ idx = 2
    /\ Cardinality(explored) >= 2
    /\ size(frontier) >= 1

\* C3: when graph_search returns failure, the frontier is empty, the plan is
\* empty and no explored state satisfies the goal.
C3_FailureIsExhaustion ==
    (Returned /\ ~result.success) =>
        /\ is_empty(frontier)
        /\ frontier.set = {}
        /\ result.plan = <<>>
        /\ explored \cap goals = {}

C3_Witness ==
    Returned /\ ~result.success /\ Cardinality(explored) >= 2 /\ goals # {}

\* C4: in every returned result the generated count is the number of states
\* popped so far plus the frontier's size at the return.
C4_GeneratedIsPopsPlusFrontier ==
    Returned =>
        result.generated.num = (iterations + size(frontier)) * result.generated.den

C6_SizeCounts ==
    /\ ~hist.keyErr => size(frontier) = hist.adds - hist.pops
    /\ last.op = "add" => size(frontier) = size(last.pre) + 1
    /\ (last.op = "pop" /\ last.err = "none") => size(frontier) = size(last.pre) - 1
    /\ is_empty(frontier) <=> size(frontier) = 0

C6_Witness ==
    /\ hist.adds >= 3 /\ hist.pops >= 1 /\ hist.dup /\ ~hist.keyErr
    /\ last.op = "add"
    /\ size(frontier) = 2

\* C7: pop on an empty frontier raises, returns nothing, and leaves the list
\* and the index as they were, both empty.
C7_PopOnEmptyRaises ==
    (last.op = "pop" /\ is_empty(last.pre)) =>
        /\ last.err = "IndexError"
        /\ last.ret = None
        /\ frontier = last.pre
        /\ frontier.stack = <<>>
        /\ frontier.set = {}

C7_Witness ==
    last.op = "pop" /\ is_empty(last.pre) /\ last.preh.adds >= 1

\* C8: the second graph_search call on the same frontier instance, whatever
\* the first call or the driver left in it, returns what the first returned.
C8_ReuseSameOutcome ==
    (Returned /\ run = "second") => result = prev

C8_Witness ==
    /\ Returned /\ run = "second"
    /\ calls.leftover >= 1
    /\ result.success /\ result.plan # <<>>

\* C9: right after prepare the frontier has size 0, is empty and contains no
\* state; and a graph_search call has called prepare exactly once, before
\* its first add.
C9_PrepareResets ==
    /\ last.op = "prepare" =>
          /\ size(frontier) = 0
          /\ is_empty(frontier)
          /\ \A v \in States : ~contains(frontier, MkRoot(v))
    /\ pc \notin {"idle"} => calls.prepare = 1
    /\ calls.add > 0 => calls.prepare = 1

C9_Witness ==
    /\ pc = "prepared" /\ last.op = "prepare"
    /\ size(last.pre) >= 2
    /\ last.pre.set # {}

\* C10: when the initial state satisfies the goal, graph_search returns
\* success with an empty plan and generated count 1, expanding nothing.
C10_InitialGoal ==
    (Returned /\ is_goal(initial_state)) =>
        /\ result.success
        /\ result.plan = <<>>
        /\ explored = {}
        /\ result.generated.num = 1 * result.generated.den

\* The vals reachable from the initial state on the level.
Reachable == ReachFrom(T, {initial_state.val})

\* C11: when no reachable state satisfies the goal, graph_search returns
\* failure with an empty plan and a generated count equal to the number of
\* distinct reachable states, the initial state included.
C11_UnreachableGoalCountsAll ==
    (Returned /\ Reachable \cap goals = {}) =>
        /\ ~result.success
        /\ result.plan = <<>>
        /\ result.generated = int(Cardinality(Reachable))

C11_Witness ==
    /\ Returned /\ Reachable \cap goals = {}
    /\ goals # {}
    /\ Cardinality(Reachable) >= 2
    /\ Cardinality(Edges(T)) > Cardinality(Reachable)

\* The level is a two-step instance: initial -a-> A -b-> G with a # b, G the
\* only reachable goal, and every other applicable action of the initial
\* state and of A leading back to the initial state or to A.
TwoStep(A, G, a, b) ==
    /\ Cardinality({initial_state.val, A, G}) = 3
    /\ a # b
    /\ T[initial_state.val][a] = A
    /\ T[A][b] = G
    /\ Reachable \cap goals = {G}
    /\ \A p \in Edges(T) :
          (p[1] \in {initial_state.val, A} /\ p # <<A, b>>) =>
              T[p[1]][p[2]] \in {initial_state.val, A}

TwoStepInstance ==
    \E A \in States, G \in States, a \in Actions, b \in Actions : TwoStep(A, G, a, b)

\* C12: on a two-step instance graph_search returns success with a plan of
\* exactly two action groups, and applying them in order from the initial
\* state reaches a state that satisfies the goal.
C12_TwoStepPlan ==
    (Returned /\ TwoStepInstance) =>
        /\ result.success
        /\ Len(result.plan) = 2
        /\ Follow(initial_state.val, result.plan) \in goals

C12_Witness ==
    /\ Returned /\ TwoStepInstance
    /\ Cardinality(Edges(T)) = 3
    /\ result.success

Running == pc \in {"prepared", "loop", "popped", "for"}

\* A variant of the loop: the reachable states not yet explored, then the
\* statements left before the next state is explored.
Stage ==
    CASE pc = "prepared" -> Len(action_set) + 4
      [] pc = "for" -> 3 + (Len(leaf_actions) - idx + 1)
      [] pc = "loop" -> 3
      [] pc = "popped" -> 2
      [] OTHER -> 0

\* The statement graph_search stands at can be executed: the two branches at
\* lines 81, 91 and 114 are each other's complement, so a step is possible
\* once the locals they read are there.
CanStep ==
    /\ pc = "popped" => leaf # None
    /\ pc = "for" => (leaf # None /\ idx \in 1 .. Len(leaf_actions))

Variant == Cardinality(Reachable \ explored) * (Len(action_set) + 5) + Stage

Open ==
    StackVals(frontier) \cup (IF pc \in {"popped", "for"} THEN {leaf.val} ELSE {})

InRun == pc \in {"loop", "popped", "for", "done"}

Popped == explored \cup (IF leaf # None THEN {leaf.val} ELSE {})

Discovered == Popped \cup StackVals(frontier)

\* C15: during a graph_search call every state (up to equality) is added to
\* the frontier at most once and popped at most once; add is never called
\* with a state that is in the frontier or in the explored set, so the list
\* never holds two equal states.
C15_AddedOncePoppedOnce ==
    InRun =>
        /\ ~hist.dup
        /\ Cardinality(StackVals(frontier)) = Len(frontier.stack)
        /\ hist.adds = Cardinality(Discovered)
        /\ hist.pops = Cardinality(Popped)
        /\ last.op = "add" =>
              LET v == frontier.stack[Len(frontier.stack)].val
              IN  /\ v \notin last.pre.set
                  /\ v \notin StackVals(last.pre)
                  /\ v \notin explored

C15_Witness ==
    /\ pc = "done" /\ ~result.success
    /\ Cardinality(Edges(T)) = 3
    /\ hist.adds = 2 /\ hist.pops = 2

\* C16: with no state added while present since the last prepare, the index
\* is the set of the list's elements: contains(s) holds exactly for the
\* states added and not yet popped, and list and index have the same length.
C16_IndexMatchesStack ==
    ~hist.dup =>
        /\ frontier.set = StackVals(frontier)
        /\ Cardinality(frontier.set) = Len(frontier.stack)
        /\ \A v \in States :
              contains(frontier, MkRoot(v)) <=> v \in {e.val : e \in hist.live}

C16_Witness ==
    /\ ~hist.dup
    /\ hist.adds >= 3 /\ hist.pops >= 1
    /\ size(frontier) >= 2
    /\ last.op = "add"

\* C17: in every frontier state reachable by prepare/add/pop calls,
\* duplicate adds included, a pop on a non-empty frontier succeeds, returns
\* the state added last and lowers size by exactly one.
C17_PopNeedsOnlyNonEmpty ==
    (last.op = "pop" /\ ~is_empty(last.pre)) =>
        /\ last.err = "none"
        /\ last.ret = last.pre.stack[Len(last.pre.stack)]
        /\ size(frontier) = size(last.pre) - 1

\* The state object is as result() made it, and so is every state on its
\* chain of parents, down to the initial state object.
RECURSIVE AsMade(_)
AsMade(state) ==
    IF state.parent = None THEN state = initial_state
    ELSE /\ state = state_result(state.parent.state, state.parent.action)
         /\ AsMade(state.parent.state)

\* C18: once graph_search has inserted the initial state, that object is
\* the one the call was given with its parent link cleared and its path cost
\* 0, whatever they were; every other state in the frontier or in hand is as
\* result() made it.
C18_OnlyInitialStateWritten ==
    InRun =>
        /\ initial_state = [calls.given EXCEPT !.parent = None, !.path_cost = 0]
        /\ initial_state.parent = None /\ initial_state.path_cost = 0
        /\ \A i \in 1 .. Len(frontier.stack) : AsMade(frontier.stack[i])
        /\ leaf # None => AsMade(leaf)

C18_Witness ==
    /\ InRun
    /\ calls.given.parent # None /\ calls.given.path_cost # 0
    /\ leaf # None /\ leaf.path_cost = 2

\* C19: the count survives the reporter's text formatting: parsing the
\* returned text gives the count back, thousands separators included.
C19_CountSurvivesFormatting ==
    (report # None /\ report.parsed # None) =>
        /\ report.parsed # [err |-> "ValueError"]
        /\ report.parsed.num = report.count * report.parsed.den

====
